---- MODULE Spec2Model ----
(***************************************************************************)
(* Model of api/transcript.py: the FastAPI route serve_transcript, its     *)
(* on-disk page cache under CACHE_DIR, and the renderer html_template.     *)
(*                                                                         *)
(* Text is modelled as a sequence of lines; a line is a record             *)
(* [indent, parts]: the number of leading blanks and the sequence of its   *)
(* remaining pieces (literal template text, characters of a formatted      *)
(* number, a caption line).  A float start offset is modelled exactly as   *)
(* an integer number of eighths of a second (every such value is a binary  *)
(* float, so Python formats the value written and nothing nearby).         *)
(*                                                                         *)
(* Requests are served concurrently (several workers over one CACHE_DIR),  *)
(* and the route takes no lock: a request's steps are the places where the *)
(* file system or the provider is touched.  Path.write_text is open(path,  *)
(* "w") followed by write and close, so a file is visible empty between    *)
(* the two; FileResponse reads its file when the server sends it, after    *)
(* the route has returned.                                                 *)
(***************************************************************************)
EXTENDS Integers, Sequences, FiniteSets, TLC

VARIABLES
  cache,     \* the files of CACHE_DIR: path -> NoFile or the bytes stored
  pc,        \* per request: where serve_transcript (or the response) stands
  vid,       \* per request: the video_id path parameter
  cold,      \* per request: no page of its video was cached when it arrived
  calls,     \* per request: the arguments of its get_transcript calls, in order
  html,      \* per request: the result of html_template, or None
  wrote,     \* per request: what became of cached_page.write_text
  resp,      \* per request: the response the client gets
  exc,       \* per request: the exception raised inside the route, or None
  escaped,   \* per request: an exception left the request unconverted
  rin,       \* html_template on its own: the arguments it is given
  rout       \* html_template on its own: what it returned

vars == <<cache, pc, vid, cold, calls, html, wrote, resp, exc, escaped, rin, rout>>

\* "no value yet" for each kind of value
None == "None"
NoHtml == <<>>
NoException == [type |-> "None", msg |-> <<>>]
NoResponse == [kind |-> "None", status |-> 0, body |-> [charset |-> "none", text |-> <<>>]]

\* a path with no file behind it
NoFile == [charset |-> "none", text |-> <<"ENOENT">>]

\* ------------------------------------------------------------------------
\* Bounds
\* ------------------------------------------------------------------------
NumRequests == 2
MaxSegments == 2

Requests == 1..NumRequests
VideoIds == {"vidA", "vidB"}

\* ------------------------------------------------------------------------
\* html_template
\* ------------------------------------------------------------------------
Min(S) == CHOOSE x \in S : \A y \in S : x <= y

DigitChars == <<"0", "1", "2", "3", "4", "5", "6", "7", "8", "9">>

RECURSIVE Digits(_)
Digits(n) == IF n < 10 THEN <<DigitChars[n + 1]>>
             ELSE Digits(n \div 10) \o <<DigitChars[(n % 10) + 1]>>

RECURSIVE ZeroPad(_, _)
ZeroPad(s, width) == IF Len(s) >= width THEN s ELSE ZeroPad(<<"0">> \o s, width)

\* num/den rounded to an integer the way a wrongly "schoolbook" formatter would
RoundHalfUp(num, den) ==
  IF 2 * (num % den) >= den THEN (num \div den) + 1 ELSE num \div den

\* num/den correctly rounded to an integer, ties to even: what the 'f'
\* presentation type does with the exact binary value
RoundHalfEven(num, den) ==
  LET q == num \div den
      r == num % den
  IN  IF 2 * r > den THEN q + 1
      ELSE IF 2 * r < den THEN q
      ELSE IF q % 2 = 0 THEN q ELSE q + 1

\* the tenths printed for a start offset of `eighths`/8 seconds by ".1f"
Tenths_HalfUp(eighths) == RoundHalfUp(10 * eighths, 8)
Tenths(eighths) == RoundHalfEven(10 * eighths, 8)

\* format(start, "06.1f") for start = eighths/8 >= 0: one decimal, zero-padded
\* to a minimum total width of 6 characters, the point included
FormatStart(eighths) ==
  LET t == Tenths(eighths)
  IN  ZeroPad(Digits(t \div 10) \o <<".", DigitChars[(t % 10) + 1]>>, 6)

\* a well-formed segment is a dict with the keys start and text; text is
\* modelled as the sequence of its lines (a caption may hold newlines)
WellFormed(s) == DOMAIN s = {"start", "text"}

\* f"{s['start']:06.1f}  {s['text']}" as lines
SegmentLines(s) ==
  <<[indent |-> 0, parts |-> FormatStart(s.start) \o <<" ", " ">> \o <<s.text[1]>>]>>
  \o [i \in 1..(Len(s.text) - 1) |-> [indent |-> 0, parts |-> <<s.text[i + 1]>>]]

\* body = "\n".join(... for s in transcript), as lines (<<>> for no segment)
RECURSIVE BodyLines(_)
BodyLines(transcript) ==
  IF transcript = <<>> THEN <<>>
  ELSE SegmentLines(Head(transcript)) \o BodyLines(Tail(transcript))

\* the f-string of html_template before textwrap.dedent
TemplateLines(title, body, video_id) ==
  LET pre  == <<"<pre id=transcript>">>
      post == <<"</pre>  ">>
      block == IF body = <<>>
               THEN <<[indent |-> 8, parts |-> pre \o post]>>
               ELSE IF Len(body) = 1
               THEN <<[indent |-> 8, parts |-> pre \o body[1].parts \o post]>>
               ELSE <<[indent |-> 8, parts |-> pre \o body[1].parts]>>
                    \o SubSeq(body, 2, Len(body) - 1)
                    \o <<[indent |-> body[Len(body)].indent,
                          parts |-> body[Len(body)].parts \o post]>>
  IN  <<[indent |-> 0, parts |-> <<>>],
        [indent |-> 8, parts |-> <<"<!doctype html>">>],
        [indent |-> 8, parts |-> <<"<html lang=\"en\">  ">>],
        [indent |-> 8, parts |-> <<"<meta charset=\"utf-8\">  ">>],
        [indent |-> 8, parts |-> <<"<title>Transcript - ", title, "</title>  ">>],
        [indent |-> 8, parts |-> <<"<link rel=\"canonical\" href=\"https://youtube.com/watch?v=",
                                    video_id, "\">  ">>],
        [indent |-> 8, parts |-> <<"<style>body{font:16px/1.5 system-ui} pre{white-space:pre-wrap}</style>  ">>],
        [indent |-> 8, parts |-> <<"<h1>", title, "</h1>  ">>]>>
      \o block
      \o <<[indent |-> 8, parts |-> <<"</html>  ">>],
           [indent |-> 8, parts |-> <<>>]>>

\* textwrap.dedent: blank lines are emptied, the common margin of the other
\* lines is removed
Dedent(lines) ==
  LET nonblank == {i \in 1..Len(lines) : lines[i].parts /= <<>>}
      margin == IF nonblank = {} THEN 0 ELSE Min({lines[i].indent : i \in nonblank})
  IN  [i \in 1..Len(lines) |->
         IF lines[i].parts = <<>> THEN [indent |-> 0, parts |-> <<>>]
         ELSE [indent |-> lines[i].indent - margin, parts |-> lines[i].parts]]

\* html_template raises KeyError on a segment without 'start' or 'text'
TemplateRaises(transcript) == \E i \in 1..Len(transcript) : ~WellFormed(transcript[i])

html_template(title, transcript, video_id) ==
  Dedent(TemplateLines(title, BodyLines(transcript), video_id))

\* title = f"YouTube Video {video_id}"
Title(video_id) == <<"YouTube Video ", video_id>>

\* ------------------------------------------------------------------------
\* The cache directory
\* ------------------------------------------------------------------------
CACHE_DIR == "/tmp/cache"

\* cached_page = CACHE_DIR / f"{video_id}.html"
CachePath_Unformatted(video_id) == <<CACHE_DIR, "{video_id}", ".html">>
CachePath(video_id) == <<CACHE_DIR, video_id, ".html">>

Paths == {CachePath(v) : v \in VideoIds}

\* str.encode: the bytes of a text under a charset
EmptyBytes == [charset |-> "none", text |-> <<>>]
Encode(text, charset) ==
  IF text = <<>> THEN EmptyBytes ELSE [charset |-> charset, text |-> text]

\* the encoding write_text is given
WriteEncoding_Locale == "locale"
WriteEncoding == "utf-8"

\* the charset HTMLResponse encodes its content with
ResponseCharset == "utf-8"

\* open(path, "w"): the file exists afterwards and is empty
Truncated == EmptyBytes

\* the file after a write at offset 0 that stops after k lines of `data`
\* (k = Len(data.text) when the write completes): what was there past the
\* written part stays
WriteBytes(old, data, k) ==
  IF k = 0 THEN old
  ELSE [charset |-> data.charset,
        text |-> SubSeq(data.text, 1, k) \o SubSeq(old.text, k + 1, Len(old.text))]

\* where a failing write may stop: before anything, or half way
StopPoints(data) == {0, Len(data.text) \div 2}

\* Path.exists() on the current directory contents
Exists(path) == cache[path] /= NoFile

\* ------------------------------------------------------------------------
\* The transcript provider (youtube_transcript_api)
\* ------------------------------------------------------------------------
Languages_Default == <<>>
Languages == <<"en">>

\* the transcript of each video: content-deterministic per identifier
TranscriptOf(video_id) ==
  IF video_id = "vidA"
  THEN <<[start |-> 0, text |-> <<"Hello">>], [start |-> 490, text |-> <<"World">>]>>
  ELSE <<[start |-> 12, text |-> <<"Only line">>]>>

\* a transcript html_template cannot render: a segment without 'start'
Malformed == <<[text |-> <<"x">>]>>

ProviderRaises(video_id) ==
  {[type |-> "TranscriptsDisabled",
    msg |-> <<"Could not retrieve a transcript for the video ", video_id,
              "Subtitles are disabled for this video">>],
   [type |-> "NoTranscriptFound",
    msg |-> <<"Could not retrieve a transcript for the video ", video_id,
              "No transcripts were found for any of the requested language codes">>],
   [type |-> "RequestException", msg |-> <<"Read timed out.">>]}

\* every way YouTubeTranscriptApi.get_transcript(video_id, languages) may end
ProviderOutcomes(video_id) ==
  {[kind |-> "return", value |-> TranscriptOf(video_id)],
   [kind |-> "return", value |-> Malformed]}
  \cup {[kind |-> "raise", value |-> e] : e \in ProviderRaises(video_id)}

KeyError == [type |-> "KeyError", msg |-> <<"'start'">>]

PermissionError(path) ==
  [type |-> "PermissionError", msg |-> <<"[Errno 13] Permission denied: ">> \o path]

\* ------------------------------------------------------------------------
\* Responses
\* ------------------------------------------------------------------------
\* the two except clauses that end the route's try
StatusFor_All500(e) == 500
StatusFor_All404(e) == 404
StatusFor(e) ==
  IF e.type \in {"TranscriptsDisabled", "NoTranscriptFound"} THEN 404 ELSE 500

\* detail=f"No transcript found: {str(e)}" and detail=f"Internal server
\* error: {str(e)}": the pieces of the message, in order
DetailFor_Generic(e) ==
  IF e.type \in {"TranscriptsDisabled", "NoTranscriptFound"}
  THEN <<"No transcript found">>
  ELSE <<"Internal server error">>
DetailFor(e) ==
  IF e.type \in {"TranscriptsDisabled", "NoTranscriptFound"}
  THEN <<"No transcript found: ">> \o e.msg
  ELSE <<"Internal server error: ">> \o e.msg

HTTPException(e) ==
  [kind |-> "HTTPException", status |-> StatusFor(e),
   body |-> Encode(DetailFor(e), ResponseCharset)]

HTMLResponse(text) ==
  [kind |-> "HTMLResponse", status |-> 200, body |-> Encode(text, ResponseCharset)]

\* a FileResponse(str(cached_page)) whose file was stat'ed and read: the
\* bytes of the file as they are when it is sent
FileSent_PathAsBody(path) ==
  [kind |-> "FileResponse", status |-> 200, body |-> Encode(path, ResponseCharset)]
FileSent(path) == [kind |-> "FileResponse", status |-> 200, body |-> cache[path]]

\* a FileResponse whose stat failed: the exception reaches the server, which
\* answers with its own plain 500
FileStatFailed ==
  [kind |-> "ServerError", status |-> 500,
   body |-> Encode(<<"Internal Server Error">>, ResponseCharset)]

\* a FileResponse whose headers were sent and whose file could then not be
\* read: the client has a 200 and no body
FileReadFailed == [kind |-> "FileResponse", status |-> 200, body |-> EmptyBytes]

OSError(path) ==
  [type |-> "OSError", msg |-> <<"[Errno 28] No space left on device: ">> \o path]

\* the response after cached_page.write_text raised e: the inner except
\* clause prints and the route goes on to return the page
AfterWriteError_Raise(text, e) == HTTPException(e)
AfterWriteError(text, e) == HTMLResponse(text)

\* ------------------------------------------------------------------------
\* State
\* ------------------------------------------------------------------------
TypeOK ==
  /\ DOMAIN cache = Paths
  /\ pc \in [Requests -> {"idle", "exists", "file_response", "fetch", "write", "write_data", "done"}]
  /\ vid \in [Requests -> VideoIds \cup {None}]
  /\ wrote \in [Requests -> {"none", "ok", "open_failed", "write_failed"}]
  /\ escaped \in [Requests -> BOOLEAN]
  /\ \A r \in Requests : Len(calls[r]) <= 1

NoInput == [title |-> <<>>, transcript |-> <<>>, video_id |-> None]

\* the process has started: CACHE_DIR exists and holds no page yet
Init ==
  /\ cache = [p \in Paths |-> NoFile]
  /\ pc = [r \in Requests |-> "idle"]
  /\ vid = [r \in Requests |-> None]
  /\ cold = [r \in Requests |-> FALSE]
  /\ calls = [r \in Requests |-> <<>>]
  /\ html = [r \in Requests |-> NoHtml]
  /\ wrote = [r \in Requests |-> "none"]
  /\ resp = [r \in Requests |-> NoResponse]
  /\ exc = [r \in Requests |-> NoException]
  /\ escaped = [r \in Requests |-> FALSE]
  /\ rin = NoInput
  /\ rout = NoHtml

\* the route ends by raising HTTPException for the exception e it caught
Fail(r, e) ==
  /\ exc' = [exc EXCEPT ![r] = e]
  /\ resp' = [resp EXCEPT ![r] = HTTPException(e)]
  /\ pc' = [pc EXCEPT ![r] = "done"]

\* ------------------------------------------------------------------------
\* serve_transcript, step by step
\* ------------------------------------------------------------------------
\* GET /v/{video_id}.html arrives (requests are numbered in arrival order)
Start(r, v) ==
  /\ pc[r] = "idle"
  /\ \A q \in Requests : q < r => pc[q] /= "idle"
  /\ vid' = [vid EXCEPT ![r] = v]
  /\ cold' = [cold EXCEPT ![r] = ~Exists(CachePath(v))]
  /\ pc' = [pc EXCEPT ![r] = "exists"]
  /\ UNCHANGED <<cache, calls, html, wrote, resp, exc, escaped, rin, rout>>

\* if cached_page.exists(): return FileResponse(...); the constructor does
\* not touch the file, so the inner except clause has nothing to catch
ExistsTrue(r) ==
  /\ pc[r] = "exists"
  /\ Exists(CachePath(vid[r]))
  /\ pc' = [pc EXCEPT ![r] = "file_response"]
  /\ UNCHANGED <<cache, vid, cold, calls, html, wrote, resp, exc, escaped, rin, rout>>

ExistsFalse(r) ==
  /\ pc[r] = "exists"
  /\ ~Exists(CachePath(vid[r]))
  /\ pc' = [pc EXCEPT ![r] = "fetch"]
  /\ UNCHANGED <<cache, vid, cold, calls, html, wrote, resp, exc, escaped, rin, rout>>

\* Path.exists() re-raises an OSError it does not take for absence
\* (EACCES on the directory); the outer except Exception converts it
ExistsRaises(r) ==
  /\ pc[r] = "exists"
  /\ Fail(r, PermissionError(CachePath(vid[r])))
  /\ UNCHANGED <<cache, vid, cold, calls, html, wrote, escaped, rin, rout>>

\* the server sends the FileResponse the route returned: stat, headers, read
SendFile(r) ==
  /\ pc[r] = "file_response"
  /\ \/ /\ Exists(CachePath(vid[r]))
        /\ resp' = [resp EXCEPT ![r] = FileSent(CachePath(vid[r]))]
        /\ UNCHANGED escaped
     \/ /\ resp' = [resp EXCEPT ![r] = FileStatFailed]
        /\ escaped' = [escaped EXCEPT ![r] = TRUE]
     \/ /\ resp' = [resp EXCEPT ![r] = FileReadFailed]
        /\ escaped' = [escaped EXCEPT ![r] = TRUE]
  /\ pc' = [pc EXCEPT ![r] = "done"]
  /\ UNCHANGED <<cache, vid, cold, calls, html, wrote, exc, rin, rout>>

\* transcript = get_transcript(video_id, languages=["en"]); title; html
Fetch(r) ==
  /\ pc[r] = "fetch"
  /\ calls' = [calls EXCEPT ![r] = Append(@, <<vid[r], Languages>>)]
  /\ \E o \in ProviderOutcomes(vid[r]) :
       \/ /\ o.kind = "return"
          /\ ~TemplateRaises(o.value)
          /\ html' = [html EXCEPT ![r] = html_template(Title(vid[r]), o.value, vid[r])]
          /\ pc' = [pc EXCEPT ![r] = "write"]
          /\ UNCHANGED <<resp, exc>>
       \/ /\ o.kind = "return"
          /\ TemplateRaises(o.value)
          /\ Fail(r, KeyError)
          /\ UNCHANGED html
       \/ /\ o.kind = "raise"
          /\ Fail(r, o.value)
          /\ UNCHANGED html
  /\ UNCHANGED <<cache, vid, cold, wrote, escaped, rin, rout>>

\* write_text opens the file for writing: it is created or truncated
WriteOpen(r) ==
  /\ pc[r] = "write"
  /\ cache' = [cache EXCEPT ![CachePath(vid[r])] = Truncated]
  /\ pc' = [pc EXCEPT ![r] = "write_data"]
  /\ UNCHANGED <<vid, cold, calls, html, wrote, resp, exc, escaped, rin, rout>>

\* the open fails (read-only directory): nothing is stored
WriteOpenFails(r) ==
  /\ pc[r] = "write"
  /\ wrote' = [wrote EXCEPT ![r] = "open_failed"]
  /\ resp' = [resp EXCEPT ![r] = AfterWriteError(html[r], PermissionError(CachePath(vid[r])))]
  /\ pc' = [pc EXCEPT ![r] = "done"]
  /\ UNCHANGED <<cache, vid, cold, calls, html, exc, escaped, rin, rout>>

\* write_text writes the page and closes; return HTMLResponse(html)
WriteData(r) ==
  /\ pc[r] = "write_data"
  /\ LET p == CachePath(vid[r])
         data == Encode(html[r], WriteEncoding)
     IN  cache' = [cache EXCEPT ![p] = WriteBytes(cache[p], data, Len(data.text))]
  /\ wrote' = [wrote EXCEPT ![r] = "ok"]
  /\ resp' = [resp EXCEPT ![r] = HTMLResponse(html[r])]
  /\ pc' = [pc EXCEPT ![r] = "done"]
  /\ UNCHANGED <<vid, cold, calls, html, exc, escaped, rin, rout>>

\* the write stops part-way (disk full); return HTMLResponse(html)
WriteDataFails(r) ==
  /\ pc[r] = "write_data"
  /\ LET p == CachePath(vid[r])
         data == Encode(html[r], WriteEncoding)
     IN  \E k \in StopPoints(data) :
           cache' = [cache EXCEPT ![p] = WriteBytes(cache[p], data, k)]
  /\ wrote' = [wrote EXCEPT ![r] = "write_failed"]
  /\ resp' = [resp EXCEPT ![r] = AfterWriteError(html[r], OSError(CachePath(vid[r])))]
  /\ pc' = [pc EXCEPT ![r] = "done"]
  /\ UNCHANGED <<vid, cold, calls, html, exc, escaped, rin, rout>>

Next ==
  \/ \E r \in Requests, v \in VideoIds : Start(r, v)
  \/ \E r \in Requests : ExistsTrue(r)
  \/ \E r \in Requests : ExistsFalse(r)
  \/ \E r \in Requests : ExistsRaises(r)
  \/ \E r \in Requests : SendFile(r)
  \/ \E r \in Requests : Fetch(r)
  \/ \E r \in Requests : WriteOpen(r)
  \/ \E r \in Requests : WriteOpenFails(r)
  \/ \E r \in Requests : WriteData(r)
  \/ \E r \in Requests : WriteDataFails(r)

Spec == Init /\ [][Next]_vars

\* ------------------------------------------------------------------------
\* The same route with one request at a time (a test calling serve twice)
\* ------------------------------------------------------------------------
SeqStart(r, v) ==
  /\ \A q \in Requests : pc[q] \in {"idle", "done"}
  /\ Start(r, v)

SeqNext ==
  \/ \E r \in Requests, v \in VideoIds : SeqStart(r, v)
  \/ \E r \in Requests : ExistsTrue(r)
  \/ \E r \in Requests : ExistsFalse(r)
  \/ \E r \in Requests : ExistsRaises(r)
  \/ \E r \in Requests : SendFile(r)
  \/ \E r \in Requests : Fetch(r)
  \/ \E r \in Requests : WriteOpen(r)
  \/ \E r \in Requests : WriteOpenFails(r)
  \/ \E r \in Requests : WriteData(r)
  \/ \E r \in Requests : WriteDataFails(r)

SeqSpec == Init /\ [][SeqNext]_vars

\* ------------------------------------------------------------------------
\* html_template on its own: every input of a bounded set, rendered once
\* ------------------------------------------------------------------------
\* start offsets in eighths of a second: 0.0, 0.125, 0.25, 0.75, 61.25, 10000.0
StartSamples == {0, 1, 2, 6, 490, 80000}

TextSamples == {<<"Hello">>, <<"World">>, <<"<b>bold</b>">>, <<"two", "lines">>}

SegmentSamples == [start : StartSamples, text : TextSamples]

\* transcripts as the provider hands them out: not empty, ordered by start
TranscriptSamples ==
  UNION {{t \in [1..n -> SegmentSamples] :
            \A i \in 1..(n - 1) : t[i].start <= t[i + 1].start} : n \in 1..MaxSegments}

RenderInputs ==
  {[title |-> Title(v), transcript |-> t, video_id |-> v] :
     v \in VideoIds, t \in TranscriptSamples}

RenderInit ==
  /\ cache = [p \in Paths |-> NoFile]
  /\ pc = [r \in Requests |-> "idle"]
  /\ vid = [r \in Requests |-> None]
  /\ cold = [r \in Requests |-> FALSE]
  /\ calls = [r \in Requests |-> <<>>]
  /\ html = [r \in Requests |-> NoHtml]
  /\ wrote = [r \in Requests |-> "none"]
  /\ resp = [r \in Requests |-> NoResponse]
  /\ exc = [r \in Requests |-> NoException]
  /\ escaped = [r \in Requests |-> FALSE]
  /\ rin \in RenderInputs
  /\ rout = NoHtml

RenderCall ==
  /\ rout = NoHtml
  /\ rout' = html_template(rin.title, rin.transcript, rin.video_id)
  /\ UNCHANGED <<cache, pc, vid, cold, calls, html, wrote, resp, exc, escaped, rin>>

RenderNext == RenderCall

RenderSpec == RenderInit /\ [][RenderNext]_vars

\* ------------------------------------------------------------------------
\* Reading a rendered document back
\* ------------------------------------------------------------------------
PreOpen == "<pre id=transcript>"
PreClose == "</pre>  "

\* the lines between <pre id=transcript> and </pre>, the two tags removed
PreLines(doc) ==
  LET first == CHOOSE i \in 1..Len(doc) :
                 doc[i].parts /= <<>> /\ doc[i].parts[1] = PreOpen
      last == CHOOSE j \in first..Len(doc) :
                /\ doc[j].parts /= <<>>
                /\ doc[j].parts[Len(doc[j].parts)] = PreClose
                /\ \A k \in first..(j - 1) : doc[k].parts[Len(doc[k].parts)] /= PreClose
      strip(i) == LET ps == doc[i].parts
                      a == IF i = first THEN Tail(ps) ELSE ps
                  IN  IF i = last THEN SubSeq(a, 1, Len(a) - 1) ELSE a
  IN  [n \in 1..(last - first + 1) |-> strip(first + n - 1)]

\* s occurs in line as a contiguous piece
Contains(line, s) ==
  \E i \in 0..(Len(line) - Len(s)) : SubSeq(line, i + 1, i + Len(s)) = s

DigitValue(c) == CHOOSE d \in 0..9 : DigitChars[d + 1] = c

IsDigit(c) == \E d \in 0..9 : DigitChars[d + 1] = c

RECURSIVE NumberOf(_)
NumberOf(digits) ==
  IF digits = <<>> THEN 0
  ELSE 10 * NumberOf(SubSeq(digits, 1, Len(digits) - 1)) + DigitValue(digits[Len(digits)])

\* chars reads as a decimal number with one decimal
OneDecimal(chars) ==
  /\ Len(chars) >= 3
  /\ chars[Len(chars) - 1] = "."
  /\ \A i \in (1..Len(chars)) \ {Len(chars) - 1} : IsDigit(chars[i])

\* the number of tenths a one-decimal string stands for
TenthsOf(chars) ==
  10 * NumberOf(SubSeq(chars, 1, Len(chars) - 2)) + DigitValue(chars[Len(chars)])

\* the line index in the block at which segment i starts
RECURSIVE LineOffset(_, _)
LineOffset(transcript, i) ==
  IF i = 1 THEN 0 ELSE LineOffset(transcript, i - 1) + Len(transcript[i - 1].text)

ExampleTranscript ==
  <<[start |-> 0, text |-> <<"Hello">>], [start |-> 490, text |-> <<"World">>]>>

CanonicalLink(video_id) ==
  <<"<link rel=\"canonical\" href=\"https://youtube.com/watch?v=", video_id, "\">  ">>

HasCanonicalLink(doc, video_id) ==
  \E i \in 1..Len(doc) : doc[i].parts = CanonicalLink(video_id)

Rendered == rout /= NoHtml

\* C10 (as stated): the example transcript renders with the lines
\* "000.0  Hello" and "061.3  World", in that order, and the document holds
\* the canonical link of the video
C10_AsStated ==
  (Rendered /\ rin.transcript = ExampleTranscript) =>
    LET lines == PreLines(rout)
    IN  /\ \E i, j \in 1..Len(lines) :
             /\ i < j
             /\ Contains(lines[i], <<"0", "0", "0", ".", "0", " ", " ", "Hello">>)
             /\ Contains(lines[j], <<"0", "6", "1", ".", "3", " ", " ", "World">>)
        /\ HasCanonicalLink(rout, rin.video_id)

\* C10 (amended): the block lists the segments in transcript order; each
\* starts a line made of the start offset with one decimal, correctly
\* rounded from the value given (a tie goes to the even tenth), zero-padded
\* to at least 6 characters, two blanks, and the text as it is (the further
\* lines of a text with newlines follow as lines of their own); the example
\* renders as "0000.0  Hello", "0061.2  World"; the canonical link is there
C10_RenderingFormat ==
  Rendered =>
    LET lines == PreLines(rout)
        t == rin.transcript
        total == LineOffset(t, Len(t)) + Len(t[Len(t)].text)
    IN  /\ Len(lines) = total
        /\ \A i \in 1..Len(t) :
             LET off == LineOffset(t, i)
                 line == lines[off + 1]
                 num == SubSeq(line, 1, Len(line) - 3)
                 err == 10 * t[i].start - 8 * TenthsOf(num)
             IN  /\ Len(line) >= 9
                 /\ SubSeq(line, Len(line) - 2, Len(line)) = <<" ", " ", t[i].text[1]>>
                 /\ OneDecimal(num)
                 /\ Len(num) >= 6
                 /\ Len(num) > 6 => num[1] /= "0"
                 /\ -4 <= err /\ err <= 4
                 /\ (err = 4 \/ err = -4) => TenthsOf(num) % 2 = 0
                 /\ \A k \in 2..Len(t[i].text) : lines[off + k] = <<t[i].text[k]>>
        /\ t = ExampleTranscript =>
             lines = << <<"0", "0", "0", "0", ".", "0", " ", " ", "Hello">>,
                        <<"0", "0", "6", "1", ".", "2", " ", " ", "World">> >>
        /\ HasCanonicalLink(rout, rin.video_id)

\* the example transcript has been rendered
C10_Witness == Rendered /\ rin.transcript = ExampleTranscript

\* ------------------------------------------------------------------------
\* Properties of serve_transcript
\* ------------------------------------------------------------------------
\* the page of video v as the client is meant to get it
RenderedPage(v) == Encode(html_template(Title(v), TranscriptOf(v), v), "utf-8")

Done(r) == pc[r] = "done"

\* r found its page cached and the file was sent without an I/O error
CacheHit(r) == Done(r) /\ resp[r].kind = "FileResponse" /\ ~escaped[r]

\* r found its page cached and sending the file failed
ReadFailed(r) == Done(r) /\ escaped[r]

\* exists() raised in r
ExistsFailed(r) == Done(r) /\ exc[r].type = "PermissionError"

\* the provider gave r a transcript and html_template rendered it
Rendered200(r) == Done(r) /\ html[r] /= NoHtml

Unavailable == {"TranscriptsDisabled", "NoTranscriptFound"}

\* C1: a request that finds the entry of its video and reads it answers 200
\* with exactly the bytes stored when it reads them, and on its way it
\* neither calls the provider nor renders nor writes: the step that sends
\* the file leaves the cache alone, and a request that saw the entry goes
\* on to send it
C1_CacheHitAuthoritative ==
  [][\A r \in Requests :
       /\ (pc[r] = "file_response" /\ pc'[r] = "done" /\ ~escaped'[r]) =>
            /\ resp'[r].status = 200
            /\ resp'[r].body = cache[CachePath(vid[r])]
            /\ cache' = cache
            /\ calls'[r] = <<>> /\ html'[r] = NoHtml /\ wrote'[r] = "none"
       /\ (pc[r] = "exists" /\ Exists(CachePath(vid[r])) /\ pc'[r] \notin {"exists", "done"}) =>
            pc'[r] = "file_response"]_vars

\* a request was answered from the cache with the complete page
C1_Witness ==
  \E r \in Requests : CacheHit(r) /\ resp[r].body = RenderedPage(vid[r]) /\ calls[r] = <<>>

\* C2 (as stated): after a request that missed the cache and rendered the
\* provider's transcript, the entry exists, and a later request for the same
\* video (whose own cache accesses work) returns the same bytes without
\* calling the provider
C2_AsStated ==
  \A r \in Requests :
    (Rendered200(r) /\ cold[r]) =>
      /\ Exists(CachePath(vid[r]))
      /\ \A q \in Requests :
           (q > r /\ vid[q] = vid[r] /\ Done(q) /\ ~ReadFailed(q) /\ ~ExistsFailed(q)) =>
             /\ resp[q].status = 200
             /\ resp[q].body = resp[r].body
             /\ calls[q] = <<>>

\* C2 (amended): the same, for a request whose cache write succeeded, with
\* the requests running one after the other; the entry then holds the bytes
\* the first request returned
C2_CachePopulation ==
  \A r \in Requests :
    (Rendered200(r) /\ cold[r] /\ wrote[r] = "ok") =>
      /\ Exists(CachePath(vid[r]))
      /\ cache[CachePath(vid[r])] = resp[r].body
      /\ \A q \in Requests :
           (q > r /\ vid[q] = vid[r] /\ Done(q) /\ ~ReadFailed(q) /\ ~ExistsFailed(q)) =>
             /\ resp[q].status = 200
             /\ resp[q].body = resp[r].body
             /\ calls[q] = <<>>

\* a first request populated the cache and a second one was served from it
C2_Witness ==
  \E r, q \in Requests :
    /\ Rendered200(r) /\ cold[r] /\ wrote[r] = "ok"
    /\ q > r /\ vid[q] = vid[r] /\ CacheHit(q)

\* C3 (as stated): a request whose cached entry exists but cannot be read
\* calls the provider, and answers 200 with the fresh page when the provider
\* succeeds (so it never ends on the failed read)
C3_AsStated ==
  \A r \in Requests : ReadFailed(r) => calls[r] /= <<>>

\* C4: a request whose provider call fails with "transcripts disabled" or
\* "no transcript found" answers 404, and the step that handles the failure
\* leaves the cache as it was; the request never writes
C4_MissingTranscript ==
  /\ [][\A r \in Requests :
          (pc[r] = "fetch" /\ exc'[r].type \in Unavailable) =>
            /\ pc'[r] = "done"
            /\ resp'[r].status = 404
            /\ cache' = cache]_vars
  /\ [](\A r \in Requests :
          exc[r].type \in Unavailable => Done(r) /\ resp[r].status = 404 /\ wrote[r] = "none")

\* a request met a provider that found no transcript
C4_Witness ==
  \E r \in Requests :
    Done(r) /\ exc[r].type = "NoTranscriptFound" /\ calls[r] /= <<>>

\* C5: a request whose provider call (or the rendering after it) fails with
\* any other error answers 500, and the step that handles the failure leaves
\* the cache as it was; the request never writes
C5_ProviderError ==
  /\ [][\A r \in Requests :
          (pc[r] = "fetch" /\ exc'[r] /= NoException /\ exc'[r].type \notin Unavailable) =>
            /\ pc'[r] = "done"
            /\ resp'[r].status = 500
            /\ cache' = cache]_vars
  /\ [](\A r \in Requests :
          (exc[r] /= NoException /\ exc[r].type \notin Unavailable) =>
            Done(r) /\ resp[r].status = 500 /\ wrote[r] = "none")

\* a request met a provider that timed out
C5_Witness ==
  \E r \in Requests :
    Done(r) /\ exc[r].type = "RequestException" /\ calls[r] /= <<>>

\* C6: a request that rendered the provider's transcript answers 200 with
\* the rendered page whatever became of the cache write
C6_WriteFailureResilience ==
  \A r \in Requests :
    Rendered200(r) =>
      /\ resp[r].kind = "HTMLResponse"
      /\ resp[r].status = 200
      /\ resp[r].body = RenderedPage(vid[r])

\* one request's write could not open the file and another's stopped half way
C6_Witness ==
  /\ \E r \in Requests : Rendered200(r) /\ wrote[r] = "open_failed"
  /\ \E r \in Requests : Rendered200(r) /\ wrote[r] = "write_failed"

\* C7 (as stated): every finished request has one response with status 200,
\* 404 or 500, and no exception has left it unconverted
C7_AsStated ==
  \A r \in Requests :
    Done(r) => resp[r].status \in {200, 404, 500} /\ ~escaped[r]

\* C8 (as stated): requests for one video that all arrived before any page
\* of it was cached, with the provider answering each with the transcript
\* and no cache operation failing: once all have finished, each has answered
\* 200 with the rendered page, and the entry is that page
C8_AsStated ==
  \A v \in VideoIds :
    (\A r \in Requests :
        /\ Done(r) /\ vid[r] = v /\ cold[r]
        /\ exc[r] = NoException /\ ~escaped[r]
        /\ wrote[r] \in {"none", "ok"}) =>
      /\ \A r \in Requests : resp[r].status = 200 /\ resp[r].body = RenderedPage(v)
      /\ cache[CachePath(v)] = RenderedPage(v)

\* C9 (as stated): while no write has failed, every cache hit carries the
\* complete rendered page of its video
C9_AsStated ==
  (\A q \in Requests : wrote[q] \in {"none", "ok"}) =>
    \A r \in Requests : CacheHit(r) => resp[r].body = RenderedPage(vid[r])

\* ------------------------------------------------------------------------
\* Messages, keys, the life of an entry, the provider call
\* ------------------------------------------------------------------------
\* the text of a response holds the piece x
Mentions(body, x) == \E i \in 1..Len(body.text) : body.text[i] = x

\* what the provider reports as the cause of a missing transcript
ProviderReasons ==
  {"Subtitles are disabled for this video",
   "No transcripts were found for any of the requested language codes"}

C12_AsStated ==
  \A r \in Requests :
    (Done(r) /\ resp[r].status = 500) => ~Mentions(resp[r].body, CACHE_DIR)

\* C13 (as stated): a request whose exists() failed goes on to the provider
\* as on a cache miss, and does not end on the failure
C13_AsStated ==
  \A r \in Requests :
    ExistsFailed(r) => calls[r] /= <<>> /\ resp[r].status /= 500

\* request r takes a step
Steps(r) == pc'[r] /= pc[r]

C15_CreatedByRender ==
  [][\A v \in VideoIds :
       (~Exists(CachePath(v)) /\ Exists(CachePath(v))') =>
         \E r \in Requests :
           /\ vid[r] = v /\ Steps(r) /\ pc[r] = "write"
           /\ calls[r] /= <<>> /\ html[r] = html_template(Title(v), TranscriptOf(v), v)]_vars

\* no step removes an entry
C15_NeverRemoved ==
  [][\A v \in VideoIds : Exists(CachePath(v)) => Exists(CachePath(v))']_vars

\* C15 (as stated): an entry is created only by a request for its video
\* that fetched and rendered; it is never removed; and a write that ends on
\* an entry another request had stored completely leaves a page equal to
\* the one that was there
C15_AsStated ==
  [][\A v \in VideoIds :
       /\ (~Exists(CachePath(v)) /\ Exists(CachePath(v))') =>
            \E r \in Requests :
              /\ vid[r] = v /\ Steps(r) /\ pc[r] = "write"
              /\ calls[r] /= <<>> /\ html[r] /= NoHtml
       /\ Exists(CachePath(v)) => Exists(CachePath(v))'
       /\ \A r \in Requests :
            (/\ vid[r] = v /\ pc[r] = "write_data" /\ pc'[r] = "done"
             /\ \E q \in Requests \ {r} : vid[q] = v /\ wrote[q] = "ok") =>
              cache'[CachePath(v)] = RenderedPage(v)]_vars

\* C16: a request calls the provider at most once, with its own video_id
\* and the language list ["en"], and only when the cache lookup gave it no
\* response: a request that called the provider was not answered from a file
C16_ProviderDiscipline ==
  /\ [](\A r \in Requests :
          /\ Len(calls[r]) <= 1
          /\ \A i \in 1..Len(calls[r]) : calls[r][i] = <<vid[r], <<"en">>>>
          /\ calls[r] /= <<>> => resp[r].kind \notin {"FileResponse", "ServerError"}
          /\ pc[r] \in {"write", "write_data"} => Len(calls[r]) = 1)
  /\ [][\A r \in Requests :
          /\ calls'[r] /= calls[r] => pc[r] = "fetch"
          /\ (pc'[r] = "fetch" /\ pc[r] /= "fetch") =>
               pc[r] = "exists" /\ ~Exists(CachePath(vid[r]))]_vars

\* one request was served after a provider call and another from the cache
C16_Witness ==
  /\ \E r \in Requests : Done(r) /\ Len(calls[r]) = 1 /\ resp[r].status = 200
  /\ \E r \in Requests : CacheHit(r) /\ calls[r] = <<>>

\* C17 (as stated): while no write to the file of v is in progress, an
\* entry of v holds the complete rendered page of v
C17_AsStated ==
  \A v \in VideoIds :
    (Exists(CachePath(v)) /\ \A r \in Requests : ~(vid[r] = v /\ pc[r] = "write_data")) =>
      cache[CachePath(v)] = RenderedPage(v)

====
